---- MODULE Spec2Model ----
(***************************************************************************)
(* Model of the post-build security auditor of go-safe-cmd-runner:         *)
(*   scripts/security_checker.py            (the checker used by the tests)*)
(*   scripts/additional-security-checks.py  (the stand-alone script)       *)
(* A string is the sequence of its code points, a file content the         *)
(* sequence of its bytes (0..255).                                         *)
(* Spec explores the calls on one binary, SpecTree the source-tree checks,  *)
(* SpecRun the build-environment check, the runs of all checks and main;   *)
(* no call changes the files, so the three explore separate inputs.        *)
(* SpecAll explores every operation on the inputs of SpecRun.              *)
(***************************************************************************)
EXTENDS Integers, Sequences, FiniteSets, TLC

\* fs: the file at binary_path; tree: the *.go files of the source tree, in
\* the order of the walk; env: the build environment; bins: the declared
\* binaries; call, ret, out: the call in progress, its result, what it printed
VARIABLES fs, tree, env, bins, call, ret, out, exit_code

vars == <<fs, tree, env, bins, call, ret, out, exit_code>>

(***************************************************************************)
(* Bounds of the explored inputs.                                          *)
(***************************************************************************)
\* longest file enumerated byte by byte
MaxBytes == 5
\* most records in a file built from the record palette
MaxRecs == 2
\* how many times the first record of such a file may be written
MaxRep == 6
\* most *.go files in a source tree
MaxFiles == 2

(***************************************************************************)
(* Program constants.                                                      *)
(***************************************************************************)
\* 32 <= byte <= 126
PrintableLo == 32
PrintableHi == 126
\* min_length: int = 4
DefaultMinLength == 4
\* matches[:5]
MaxShown == 5
\* bytes above this value do not decode as ASCII
AsciiMax == 127

\* 'NewManagerForTest'
NewManagerForTest ==
    <<78, 101, 119, 77, 97, 110, 97, 103, 101, 114, 70, 111, 114, 84, 101, 115, 116>>
\* 'testing.T'
testing_T == <<116, 101, 115, 116, 105, 110, 103, 46, 84>>
\* '_test.go'
underscore_test_go == <<95, 116, 101, 115, 116, 46, 103, 111>>
\* 'test.go'
test_go == <<116, 101, 115, 116, 46, 103, 111>>
\* 'testing.go'
testing_go == <<116, 101, 115, 116, 105, 110, 103, 46, 103, 111>>
\* 'toolchain@'
toolchain_at == <<116, 111, 111, 108, 99, 104, 97, 105, 110, 64>>
\* '/go/pkg/mod/'
go_pkg_mod == <<47, 103, 111, 47, 112, 107, 103, 47, 109, 111, 100, 47>>
\* 'runtime.Caller'
runtime_Caller == <<114, 117, 110, 116, 105, 109, 101, 46, 67, 97, 108, 108, 101, 114>>
\* 'test'
test_keyword == <<116, 101, 115, 116>>

\* test_patterns = ['NewManagerForTest', 'testing.T', '_test.go']
test_patterns == <<NewManagerForTest, testing_T, underscore_test_go>>
\* user_test_patterns = ['test.go', 'testing.go']
user_test_patterns == <<test_go, testing_go>>
\* the two substrings of the skip test in _contains_user_test_file
suppression_patterns == <<toolchain_at, go_pkg_mod>>

(***************************************************************************)
(* Python primitives.                                                      *)
(***************************************************************************)
\* pattern in s
Contains(pattern, s) ==
    \E i \in 0..(Len(s) - Len(pattern)) :
        \A k \in 1..Len(pattern) : s[i + k] = pattern[k]

\* seq[:n]
Take(seq, n) == SubSeq(seq, 1, IF Len(seq) < n THEN Len(seq) ELSE n)

\* s.lower() on code points: 'A'..'Z' map to 'a'..'z'
Lower(s) == [i \in 1..Len(s) |-> IF 65 <= s[i] /\ s[i] <= 90 THEN s[i] + 32 ELSE s[i]]

\* bytearray.decode('ascii'): fails on a byte above 127
DecodesAsAscii(buf) == \A i \in 1..Len(buf) : buf[i] <= AsciiMax

(***************************************************************************)
(* security_checker.py: extract_strings_from_binary, the scan of the bytes *)
(***************************************************************************)
\* variant: the range test without its upper limit
IsPrintableNoUpper(byte) == PrintableLo <= byte
\* 32 <= byte <= 126
IsPrintable(byte) == PrintableLo <= byte /\ byte <= PrintableHi

\* variant: > in place of >=
LongEnoughStrict(current_string, min_length) == Len(current_string) > min_length
\* len(current_string) >= min_length
LongEnough(current_string, min_length) == Len(current_string) >= min_length

\* variant: the buffer left at end-of-file is forgotten
FlushNothing(strings, current_string, min_length) == strings
\* the last string, appended after the loop if the file does not end with a
\* non-printable byte
Flush(strings, current_string, min_length) ==
    IF LongEnough(current_string, min_length)
    THEN Append(strings, current_string)
    ELSE strings

\* one pass of the body of the for loop over binary_data
ScanStep(st, byte, min_length) ==
    IF IsPrintable(byte)
    THEN [strings |-> st.strings, current_string |-> Append(st.current_string, byte)]
    ELSE [strings |-> IF LongEnough(st.current_string, min_length)
                      THEN Append(st.strings, st.current_string)
                      ELSE st.strings,
          current_string |-> <<>>]

\* the passes of the loop for the bytes lo..hi, in order, started in state st
\* (the range is halved to keep the evaluation shallow)
RECURSIVE ScanRange(_, _, _, _, _)
ScanRange(binary_data, lo, hi, min_length, st) ==
    IF lo > hi THEN st
    ELSE IF lo = hi THEN ScanStep(st, binary_data[lo], min_length)
    ELSE LET mid == (lo + hi) \div 2
             left == ScanRange(binary_data, lo, mid, min_length, st)
         IN IF Len(left.strings) >= 0  \* the first half is computed first
            THEN ScanRange(binary_data, mid + 1, hi, min_length, left)
            ELSE left

\* strings = [], current_string = "", the for loop, and the flush at its end
ScanBytes(binary_data, min_length) ==
    LET st == ScanRange(binary_data, 1, Len(binary_data), min_length,
                        [strings |-> <<>>, current_string |-> <<>>])
    IN Flush(st.strings, st.current_string, min_length)

\* open(binary_path, 'rb') and f.read() succeed
CanRead(file) == file.kind = "file" /\ file.io = "ok"

\* the strings extract_strings_from_binary returns
ExtractedStrings(file, min_length) ==
    IF CanRead(file)
    THEN ScanBytes(file.data, min_length)
    ELSE <<>>

(***************************************************************************)
(* additional-security-checks.py: extract_strings_from_binary              *)
(***************************************************************************)
\* strings.append(current_string.decode('ascii')), UnicodeDecodeError passed over
AppendDecoded(strings, current_string) ==
    IF DecodesAsAscii(current_string) THEN Append(strings, current_string) ELSE strings

\* one pass of the body of the while loop over f.read(1)
ScriptScanStep(st, byte_val, min_length) ==
    IF PrintableLo <= byte_val /\ byte_val <= PrintableHi
    THEN [strings |-> st.strings, current_string |-> Append(st.current_string, byte_val)]
    ELSE [strings |-> IF Len(st.current_string) >= min_length
                      THEN AppendDecoded(st.strings, st.current_string)
                      ELSE st.strings,
          current_string |-> <<>>]

\* the passes of the loop for the bytes lo..hi, in order, started in state st
RECURSIVE ScriptScanRange(_, _, _, _, _)
ScriptScanRange(data, lo, hi, min_length, st) ==
    IF lo > hi THEN st
    ELSE IF lo = hi THEN ScriptScanStep(st, data[lo], min_length)
    ELSE LET mid == (lo + hi) \div 2
             left == ScriptScanRange(data, lo, mid, min_length, st)
         IN IF Len(left.strings) >= 0  \* the first half is computed first
            THEN ScriptScanRange(data, mid + 1, hi, min_length, left)
            ELSE left

\* variant: the string left in the buffer at end-of-file is not appended
ScriptScanBytesNoFinal(data, min_length) ==
    ScriptScanRange(data, 1, Len(data), min_length,
                    [strings |-> <<>>, current_string |-> <<>>]).strings
\* the while loop until f.read(1) is empty, and the final string at its end
ScriptScanBytes(data, min_length) ==
    LET st == ScriptScanRange(data, 1, Len(data), min_length,
                              [strings |-> <<>>, current_string |-> <<>>])
    IN IF Len(st.current_string) >= min_length
       THEN AppendDecoded(st.strings, st.current_string)
       ELSE st.strings

\* the strings the script's extract_strings_from_binary returns
ScriptExtractedStrings(file, min_length) ==
    IF CanRead(file)
    THEN ScriptScanBytes(file.data, min_length)
    ELSE <<>>

(***************************************************************************)
(* Printed lines.                                                          *)
(***************************************************************************)
NoString == <<>>
\* print_info(message)
Info(message) == [kind |-> "info", msg |-> message, str |-> NoString]
\* print_error(message)
Error(message) == [kind |-> "error", msg |-> message, str |-> NoString]
\* print_warning(message)
Warning(message) == [kind |-> "warning", msg |-> message, str |-> NoString]
\* print_success(message)
Success(message) == [kind |-> "success", msg |-> message, str |-> NoString]
\* print(match)
Raw(s) == [kind |-> "print", msg |-> "", str |-> s]

\* the warning the script's extractor prints on IOError
ScriptExtractOut(file) ==
    IF CanRead(file) THEN <<>> ELSE <<Warning("Could not read binary file")>>

(***************************************************************************)
(* check_binary_security                                                   *)
(***************************************************************************)
\* variant: no string is taken for a toolchain or module-cache path
IsToolchainPathNever(s) == FALSE
\* 'toolchain@' in s or '/go/pkg/mod/' in s
IsToolchainPath(s) == Contains(toolchain_at, s) \/ Contains(go_pkg_mod, s)

\* variant: toolchain paths are skipped by the hard-fail scan too
MatchesUnsuppressed(strings_output, pattern) ==
    SelectSeq(strings_output, LAMBDA s : Contains(pattern, s) /\ ~IsToolchainPath(s))
\* matches = [s for s in strings_output if pattern in s]
Matches(strings_output, pattern) ==
    SelectSeq(strings_output, LAMBDA s : Contains(pattern, s))

\* for match in matches[:5]: print(match)
ShownMatches(matches) == Take(matches, MaxShown)

\* variant: the loop over test_patterns from pattern k on, with no break
RECURSIVE HardFailScanNoBreak(_, _)
HardFailScanNoBreak(strings_output, k) ==
    IF k > Len(test_patterns)
    THEN [found |-> FALSE, shown |-> <<>>]
    ELSE LET matches == Matches(strings_output, test_patterns[k])
             rest == HardFailScanNoBreak(strings_output, k + 1)
         IN [found |-> (matches # <<>>) \/ rest.found,
             shown |-> ShownMatches(matches) \o rest.shown]

\* the loop over test_patterns from pattern k on: the first pattern with a
\* match sets test_functions_found, shows its matches and breaks
RECURSIVE HardFailScan(_, _)
HardFailScan(strings_output, k) ==
    IF k > Len(test_patterns)
    THEN [found |-> FALSE, shown |-> <<>>]
    ELSE LET matches == Matches(strings_output, test_patterns[k])
         IN IF matches # <<>>
            THEN [found |-> TRUE, shown |-> ShownMatches(matches)]
            ELSE HardFailScan(strings_output, k + 1)

\* what the hard-fail scan prints
HardFailOut(scan) ==
    IF scan.found
    THEN <<Error("Test functions found in production binary")>>
         \o [i \in 1..Len(scan.shown) |-> Raw(scan.shown[i])]
    ELSE <<>>

\* _contains_any_pattern(strings_output, patterns)
contains_any_pattern(strings_output, patterns) ==
    \E i \in 1..Len(strings_output) :
        \E j \in 1..Len(patterns) : Contains(patterns[j], strings_output[i])

\* variant: one toolchain path exempts every string of the list
contains_user_test_file_global(strings_output, patterns, i) ==
    /\ ~\E n \in 1..Len(strings_output) : IsToolchainPath(strings_output[n])
    /\ contains_any_pattern(strings_output, patterns)

\* _contains_user_test_file(strings_output, user_test_patterns), from string i on
RECURSIVE contains_user_test_file(_, _, _)
contains_user_test_file(strings_output, patterns, i) ==
    IF i > Len(strings_output)
    THEN FALSE
    ELSE IF IsToolchainPath(strings_output[i])
         THEN contains_user_test_file(strings_output, patterns, i + 1)
         ELSE IF \E j \in 1..Len(patterns) : Contains(patterns[j], strings_output[i])
              THEN TRUE
              ELSE contains_user_test_file(strings_output, patterns, i + 1)

\* variant: the handler returns False
AnalysisFailedAsFail(printed) ==
    [ok |-> FALSE, out |-> Append(printed, Warning("Failed to analyze binary strings"))]
\* except Exception as e: print_warning(...); return True
AnalysisFailed(printed) ==
    [ok |-> TRUE, out |-> Append(printed, Warning("Failed to analyze binary strings"))]

\* if not Path(binary_path).is_file(): print_error(...); return False
BinaryNotFound(printed) ==
    [ok |-> FALSE, out |-> Append(printed, Error("Binary not found"))]

\* variant: only user test files make the check fail
VerdictSoftOnly(printed, test_functions_found, user_test_files_found) ==
    IF user_test_files_found
    THEN [ok |-> FALSE,
          out |-> Append(printed, Warning("User test file references found in binary"))]
    ELSE [ok |-> TRUE,
          out |-> Append(printed, Success("No test artifacts found in binary"))]
\* the verdict of security_checker.py's check_binary_security
Verdict(printed, test_functions_found, user_test_files_found) ==
    IF test_functions_found
    THEN [ok |-> FALSE, out |-> printed]
    ELSE IF user_test_files_found
         THEN [ok |-> FALSE,
               out |-> Append(printed, Warning("User test file references found in binary"))]
         ELSE [ok |-> TRUE,
               out |-> Append(printed, Success("No test artifacts found in binary"))]

\* security_checker.py: check_binary_security(binary_path); fault is the
\* place where an exception other than OSError is raised inside the try
CheckBinarySecurity(file, fault) ==
    LET header == <<Info("Checking binary security for")>>
    IN IF file.kind # "file"
       THEN BinaryNotFound(header)
       ELSE IF fault = "extract"
            THEN AnalysisFailed(header)
            ELSE LET strings_output == ExtractedStrings(file, DefaultMinLength)
                     scan == HardFailScan(strings_output, 1)
                     printed == header \o HardFailOut(scan)
                 IN IF fault = "analysis"
                    THEN AnalysisFailed(printed)
                    ELSE Verdict(printed, scan.found,
                                 contains_user_test_file(strings_output,
                                                         user_test_patterns, 1))

\* the debug-symbol warning of the script's check_binary_security
DebugSymbolsOut(strings_output) ==
    LET runtime_caller_found ==
            \E i \in 1..Len(strings_output) : Contains(runtime_Caller, strings_output[i])
        test_keyword_found ==
            \E i \in 1..Len(strings_output) : Contains(test_keyword, Lower(strings_output[i]))
    IN IF runtime_caller_found /\ test_keyword_found
       THEN <<Warning("Development debug symbols found in binary")>>
       ELSE <<>>

\* additional-security-checks.py: check_binary_security(binary_path)
ScriptCheckBinarySecurity(file, fault) ==
    LET header == <<Info("Checking binary security for")>>
    IN IF file.kind # "file"
       THEN BinaryNotFound(header)
       ELSE IF fault = "extract"
            THEN AnalysisFailed(header)
            ELSE LET strings_output == ScriptExtractedStrings(file, DefaultMinLength)
                     scan == HardFailScan(strings_output, 1)
                     printed == header \o ScriptExtractOut(file) \o HardFailOut(scan)
                 IN IF fault = "analysis"
                    THEN AnalysisFailed(printed)
                    ELSE LET shown == printed \o DebugSymbolsOut(strings_output)
                         IN IF ~scan.found
                            THEN [ok |-> TRUE,
                                  out |-> Append(shown,
                                      Success("No test artifacts found in binary"))]
                            ELSE [ok |-> FALSE, out |-> shown]

(***************************************************************************)
(* check_binary_permissions                                                *)
(***************************************************************************)
\* stat.S_IRUSR, stat.S_IXUSR, stat.S_IXGRP, stat.S_IXOTH
S_IRUSR == 256
S_IXUSR == 64
S_IXGRP == 8
S_IXOTH == 1

\* mode & bit, for a single permission bit
HasBit(mode, bit) == (mode \div bit) % 2 = 1

\* variant: only the execute bit of others counts
is_executable_others_only(mode) == HasBit(mode, S_IXOTH)
\* bool(mode & (stat.S_IXUSR | stat.S_IXGRP | stat.S_IXOTH))
is_executable(mode) ==
    HasBit(mode, S_IXUSR) \/ HasBit(mode, S_IXGRP) \/ HasBit(mode, S_IXOTH)

\* (mode & stat.S_IRWXU) >> 6
owner_perms(mode) == (mode \div 64) % 8

\* variant: a missing binary fails the permission check
PermissionsSkippedAsFail == [ok |-> FALSE, out |-> <<>>]
\* if not binary_file.is_file(): return True
PermissionsSkipped == [ok |-> TRUE, out |-> <<>>]

\* the end of check_binary_permissions, after the owner-permission warning
PermissionsVerdict(file, printed) ==
    IF ~is_executable(file.mode)
    THEN [ok |-> FALSE, out |-> Append(printed, Error("Binary is not executable"))]
    ELSE [ok |-> TRUE, out |-> Append(printed, Success("Binary permissions check passed"))]

\* security_checker.py: check_binary_permissions(binary_path)
CheckBinaryPermissions(file) ==
    IF file.kind # "file"
    THEN PermissionsSkipped
    ELSE LET header == <<Info("Checking binary permissions for")>>
             \* mode & required_perms == required_perms
             required == HasBit(file.mode, S_IRUSR) /\ HasBit(file.mode, S_IXUSR)
         IN PermissionsVerdict(file,
                IF ~required
                THEN Append(header, Warning("Binary owner permissions unexpected"))
                ELSE header)

\* additional-security-checks.py: check_binary_permissions(binary_path)
ScriptCheckBinaryPermissions(file) ==
    IF file.kind # "file"
    THEN PermissionsSkipped
    ELSE LET header == <<Info("Checking binary permissions for")>>
         IN PermissionsVerdict(file,
                IF owner_perms(file.mode) # 7
                THEN Append(header, Warning("Binary owner permissions unexpected"))
                ELSE header)

(***************************************************************************)
(* The source tree: the *.go files Path('.').rglob('*.go') yields, each    *)
(* with its path parts, and the bytes open() reads or its I/O error.       *)
(***************************************************************************)
\* 'vendor'
vendor ==
    <<118, 101, 110, 100, 111, 114>>
\* 'manager_testing.go'
manager_testing_go ==
    <<109, 97, 110, 97, 103, 101, 114, 95, 116, 101, 115, 116, 105, 110, 103, 46, 103,
      111>>
\* '_testing.go'
underscore_testing_go ==
    <<95, 116, 101, 115, 116, 105, 110, 103, 46, 103, 111>>
\* 'package '
package_prefix ==
    <<112, 97, 99, 107, 97, 103, 101, 32>>
\* '//go:build test'
go_build_test ==
    <<47, 47, 103, 111, 58, 98, 117, 105, 108, 100, 32, 116, 101, 115, 116>>
\* '--hash-directory'
hash_directory_flag ==
    <<45, 45, 104, 97, 115, 104, 45, 100, 105, 114, 101, 99, 116, 111, 114, 121>>
\* 'newManagerInternal'
newManagerInternal ==
    <<110, 101, 119, 77, 97, 110, 97, 103, 101, 114, 73, 110, 116, 101, 114, 110, 97,
      108>>
\* 'internal/verification'
internal_verification ==
    <<105, 110, 116, 101, 114, 110, 97, 108, 47, 118, 101, 114, 105, 102, 105, 99, 97,
      116, 105, 111, 110>>
\* 'internal/cmdcommon/common.go'
common_go ==
    <<105, 110, 116, 101, 114, 110, 97, 108, 47, 99, 109, 100, 99, 111, 109, 109, 111,
      110, 47, 99, 111, 109, 109, 111, 110, 46, 103, 111>>
\* 'Makefile'
Makefile ==
    <<77, 97, 107, 101, 102, 105, 108, 101>>
\* 'go-safe-cmd-runner/hashes'
hashes_dir ==
    <<103, 111, 45, 115, 97, 102, 101, 45, 99, 109, 100, 45, 114, 117, 110, 110, 101,
      114, 47, 104, 97, 115, 104, 101, 115>>
\* '.gocmdhashes'
gocmdhashes ==
    <<46, 103, 111, 99, 109, 100, 104, 97, 115, 104, 101, 115>>

\* s.startswith(prefix)
StartsWith(s, prefix) ==
    Len(s) >= Len(prefix) /\ SubSeq(s, 1, Len(prefix)) = prefix

\* s.endswith(suffix)
EndsWith(s, suffix) ==
    Len(s) >= Len(suffix) /\ SubSeq(s, Len(s) - Len(suffix) + 1, Len(s)) = suffix

\* the ASCII characters str.strip() removes: \t \n \v \f \r, \x1c..\x1f, space
IsSpace(c) == c \in (9..13) \cup (28..32)

\* s.strip()
Strip(s) ==
    LET kept == {i \in 1..Len(s) : ~IsSpace(s[i])}
    IN IF kept = {} THEN <<>>
       ELSE SubSeq(s, CHOOSE i \in kept : \A j \in kept : i <= j,
                      CHOOSE i \in kept : \A j \in kept : j <= i)

\* f.readlines(): the text cut after each '\n', the rest as the last line
ReadLines(text) ==
    LET ends == {i \in 1..Len(text) : text[i] = 10 \/ i = Len(text)}
        endOf(k) == CHOOSE e \in ends : Cardinality({x \in ends : x < e}) = k - 1
    IN [k \in 1..Cardinality(ends) |->
            SubSeq(text, IF k = 1 THEN 1 ELSE endOf(k - 1) + 1, endOf(k))]

\* bytes.decode('utf-8') of ASCII bytes and of bytes that no UTF-8 text holds
\* (0xc0, 0xc1, 0xf5..0xff): the former decode to themselves, the latter raise
DecodesAsUtf8(data) ==
    \A i \in 1..Len(data) : data[i] <= AsciiMax

\* open(go_file, 'r', encoding='utf-8') and read() raise neither IOError nor
\* UnicodeDecodeError
ReadsAsText(go_file) == go_file.io = "ok" /\ DecodesAsUtf8(go_file.data)

\* str(go_file): the parts joined by '/'
RECURSIVE PathStr(_)
PathStr(parts) ==
    IF Len(parts) = 0 THEN <<>>
    ELSE IF Len(parts) = 1 THEN parts[1]
    ELSE parts[1] \o <<47>> \o PathStr(Tail(parts))

\* go_file.name
PathName(parts) == parts[Len(parts)]

\* 'vendor' in go_file.parts
InVendor(parts) == \E i \in 1..Len(parts) : parts[i] = vendor

\* [str(go_file) for go_file in files]
PathStrs(files) == [i \in 1..Len(files) |-> PathStr(files[i].path)]

\* for file_path in files: print(file_path)
PrintAll(strs) == [i \in 1..Len(strs) |-> Raw(strs[i])]

(***************************************************************************)
(* check_build_tags                                                        *)
(***************************************************************************)
\* filename == 'manager_testing.go' or filename.endswith('_testing.go')
IsTestingSupport(filename) ==
    filename = manager_testing_go \/ EndsWith(filename, underscore_testing_go)

\* package_line_idx if package_line_idx is not None else len(lines), as the
\* number of lines before the first line that starts with 'package '
check_until(lines) ==
    LET package_lines ==
            {i \in 1..Len(lines) : StartsWith(Strip(lines[i]), package_prefix)}
    IN IF package_lines = {} THEN Len(lines)
       ELSE (CHOOSE i \in package_lines : \A j \in package_lines : i <= j) - 1

\* variant: the marker is looked for in the whole file
has_test_constraint_anywhere(lines) ==
    \E i \in 1..Len(lines) : StartsWith(Strip(lines[i]), go_build_test)
\* any(l.strip().startswith('//go:build test') for l in lines[:check_until])
has_test_constraint(lines) ==
    \E i \in 1..check_until(lines) : StartsWith(Strip(lines[i]), go_build_test)

\* one pass of the for loop over rglob('*.go')
BuildTagsStep(st, go_file) ==
    IF InVendor(go_file.path) THEN st
    ELSE IF ~IsTestingSupport(PathName(go_file.path)) THEN st
    ELSE IF ~ReadsAsText(go_file)
         THEN [st EXCEPT !.printed = Append(@, Warning("Could not read file"))]
    ELSE IF ~has_test_constraint(ReadLines(go_file.data))
         THEN [st EXCEPT !.files_without_test_tag = Append(@, PathStr(go_file.path))]
    ELSE st

\* the for loop over the files i..Len(files) of the walk
RECURSIVE BuildTagsLoop(_, _, _)
BuildTagsLoop(files, i, st) ==
    IF i > Len(files) THEN st
    ELSE BuildTagsLoop(files, i + 1, BuildTagsStep(st, files[i]))

\* check_build_tags(), the same code in both files
CheckBuildTags(files) ==
    LET st == BuildTagsLoop(files, 1,
                  [files_without_test_tag |-> <<>>,
                   printed |-> <<Info("Checking build tag compliance")>>])
    IN IF st.files_without_test_tag # <<>>
       THEN [ok |-> FALSE,
             out |-> Append(st.printed,
                         Error("Files with testing APIs missing '//go:build test' tag:"))
                     \o PrintAll(st.files_without_test_tag)]
       ELSE [ok |-> TRUE,
             out |-> Append(st.printed, Success("Build tag compliance check passed"))]

(***************************************************************************)
(* check_forbidden_patterns                                                *)
(***************************************************************************)
\* hash_flag_matches: the first walk
hash_flag_matches(files) ==
    PathStrs(SelectSeq(files, LAMBDA go_file :
        /\ ~InVendor(go_file.path)
        /\ ReadsAsText(go_file)
        /\ Contains(hash_directory_flag, go_file.data)))

\* variant: the second walk skips no test file
SkippedByConstructorWalkNoTests(parts) ==
    InVendor(parts) \/ Contains(internal_verification, PathStr(parts))
\* the files the second walk passes over
SkippedByConstructorWalk(parts) ==
    \/ InVendor(parts)
    \/ Contains(internal_verification, PathStr(parts))
    \/ EndsWith(PathName(parts), underscore_test_go)

\* found_files: the second walk
found_files(files) ==
    PathStrs(SelectSeq(files, LAMBDA go_file :
        /\ ~SkippedByConstructorWalk(go_file.path)
        /\ ReadsAsText(go_file)
        /\ Contains(newManagerInternal, go_file.data)))

\* hardcoded_hash_dirs: the third walk of security_checker.py
hardcoded_hash_dirs(files) ==
    PathStrs(SelectSeq(files, LAMBDA go_file :
        /\ ~InVendor(go_file.path)
        /\ ~EndsWith(PathName(go_file.path), underscore_test_go)
        /\ PathStr(go_file.path) # common_go
        /\ ~Contains(Makefile, PathStr(go_file.path))
        /\ ReadsAsText(go_file)
        /\ Contains(hashes_dir, go_file.data)))

\* hardcoded_hash_dirs: the third walk of additional-security-checks.py
script_hardcoded_hash_dirs(files) ==
    PathStrs(SelectSeq(files, LAMBDA go_file :
        /\ ~InVendor(go_file.path)
        /\ ~EndsWith(PathName(go_file.path), underscore_test_go)
        /\ ReadsAsText(go_file)
        /\ Contains(gocmdhashes, go_file.data)))

\* variant: patterns_found starts as True
PatternsFoundFromStart(hash_flags, constructors, hash_dirs) == TRUE
\* patterns_found at the end of check_forbidden_patterns
PatternsFound(hash_flags, constructors, hash_dirs) ==
    hash_flags # <<>> \/ constructors # <<>>

\* what check_forbidden_patterns prints and returns for the three lists
ForbiddenPatternsVerdict(hash_flags, constructors, hash_dirs) ==
    LET found == PatternsFound(hash_flags, constructors, hash_dirs)
    IN [ok |-> ~found,
        out |-> <<Info("Checking for forbidden patterns in source code")>>
            \o (IF hash_flags # <<>>
                THEN <<Error("Found forbidden --hash-directory flag usage:")>>
                     \o PrintAll(hash_flags)
                ELSE <<>>)
            \o (IF constructors # <<>>
                THEN <<Error("Found forbidden direct newManagerInternal usage outside verification package:")>>
                     \o PrintAll(constructors)
                ELSE <<>>)
            \o (IF hash_dirs # <<>>
                THEN <<Warning("Found potential hardcoded hash directory references:")>>
                     \o PrintAll(hash_dirs)
                ELSE <<>>)
            \o (IF ~found THEN <<Success("No forbidden patterns found")>> ELSE <<>>)]

\* security_checker.py: check_forbidden_patterns()
CheckForbiddenPatterns(files) ==
    ForbiddenPatternsVerdict(hash_flag_matches(files), found_files(files),
                             hardcoded_hash_dirs(files))

\* additional-security-checks.py: check_forbidden_patterns()
ScriptCheckForbiddenPatterns(files) ==
    ForbiddenPatternsVerdict(hash_flag_matches(files), found_files(files),
                             script_hardcoded_hash_dirs(files))

(***************************************************************************)
(* run_command, the exceptions, and the handlers of the checks.            *)
(***************************************************************************)
\* stat.S_ISUID
S_ISUID == 2048

\* run_command(cmd, check=check) for an executable that is found or not and
\* exits with returncode: the exception it raises, or "none".  subprocess.run
\* raises FileNotFoundError when the executable is missing.
run_command(found, returncode, check) ==
    IF ~found THEN "FileNotFoundError"
    ELSE IF check /\ returncode # 0 THEN "CalledProcessError"
    ELSE "none"

\* except subprocess.CalledProcessError
CaughtAsCalledProcessError(exc) == exc = "CalledProcessError"

\* except (IOError, UnicodeDecodeError)
CaughtAsReadError(exc) == exc \in {"IOError", "FileNotFoundError", "UnicodeDecodeError"}

\* variant: a bare except
CaughtByBareExcept(exc) == TRUE
\* except Exception: KeyboardInterrupt is no Exception
CaughtAsException(exc) ==
    exc \in {"IOError", "FileNotFoundError", "UnicodeDecodeError", "CalledProcessError"}

\* a check that has returned, and one that an exception has left
Returned(r) == [ok |-> r.ok, out |-> r.out, raised |-> "none"]
Raised(printed, exc) == [ok |-> FALSE, out |-> printed, raised |-> exc]

(***************************************************************************)
(* check_build_environment                                                 *)
(***************************************************************************)
\* check_build_environment(), the same code in both files; interrupt: a
\* KeyboardInterrupt arrives while go version runs
CheckBuildEnvironment(e, interrupt) ==
    LET header == <<Info("Checking build environment integrity")>>
        version_exc == IF interrupt THEN "KeyboardInterrupt"
                       ELSE run_command(e.go = "found", e.version, TRUE)
        verify_exc == run_command(e.go = "found", e.verify, TRUE)
        versioned == Append(header, Info("Go version"))
    IN IF version_exc # "none"
       THEN IF CaughtAsCalledProcessError(version_exc)
            THEN Returned([ok |-> FALSE,
                           out |-> Append(header, Error("Go is not installed or not in PATH"))])
            ELSE Raised(header, version_exc)
       ELSE IF ~e.go_mod
       THEN Returned([ok |-> FALSE,
                      out |-> Append(versioned, Error("go.mod file not found"))])
       ELSE IF verify_exc # "none"
       THEN IF CaughtAsCalledProcessError(verify_exc)
            THEN Returned([ok |-> FALSE,
                           out |-> Append(versioned,
                               Error("go mod verify failed - module integrity check failed"))])
            ELSE Raised(versioned, verify_exc)
       ELSE Returned([ok |-> TRUE,
                      out |-> Append(versioned,
                          Success("Build environment integrity check passed"))])

(***************************************************************************)
(* The checks as run_all_checks and main call them: each returns or is     *)
(* left by an exception.  interrupt: a KeyboardInterrupt arrives inside    *)
(* the try block of the check.                                             *)
(***************************************************************************)
BuildTagsOutcome(files, interrupt) ==
    IF interrupt /\ ~CaughtAsReadError("KeyboardInterrupt")
    THEN Raised(<<Info("Checking build tag compliance")>>, "KeyboardInterrupt")
    ELSE Returned(CheckBuildTags(files))

\* print_warning("Could not check for --hash-directory pattern") in the
\* place of what the first walk prints
WalkGivenUp(r) ==
    Returned([ok |-> r.ok,
              out |-> <<r.out[1], Warning("Could not check for --hash-directory pattern")>>
                      \o Tail(r.out)])

ForbiddenPatternsOutcome(impl, files, interrupt) ==
    IF ~interrupt
    THEN Returned(IF impl = "script" THEN ScriptCheckForbiddenPatterns(files)
                  ELSE CheckForbiddenPatterns(files))
    ELSE IF CaughtAsException("KeyboardInterrupt")
    THEN \* the first walk is given up with a warning, the others go on
         WalkGivenUp(ForbiddenPatternsVerdict(<<>>, found_files(files),
                         IF impl = "script" THEN script_hardcoded_hash_dirs(files)
                         ELSE hardcoded_hash_dirs(files)))
    ELSE Raised(<<Info("Checking for forbidden patterns in source code")>>,
                "KeyboardInterrupt")

BinarySecurityOutcome(impl, file, interrupt) ==
    IF interrupt /\ ~(file.kind = "file" /\ CaughtAsException("KeyboardInterrupt"))
    THEN Raised(<<Info("Checking binary security for")>>, "KeyboardInterrupt")
    ELSE LET \* a caught exception ends the analysis
             fault == IF interrupt THEN "analysis" ELSE "none"
         IN Returned(IF impl = "script" THEN ScriptCheckBinarySecurity(file, fault)
                     ELSE CheckBinarySecurity(file, fault))

\* check_binary_permissions has no handler
BinaryPermissionsOutcome(impl, file, interrupt) ==
    IF interrupt
    THEN Raised(<<>>, "KeyboardInterrupt")
    ELSE Returned(IF impl = "script" THEN ScriptCheckBinaryPermissions(file)
                  ELSE CheckBinaryPermissions(file))

(***************************************************************************)
(* run_all_checks                                                          *)
(***************************************************************************)
\* binaries = [".../runner", ".../record", ".../verify"]
binaries == <<"runner", "record", "verify">>

\* success = True, nothing printed, no check started
Started(printed) ==
    [success |-> TRUE, out |-> printed, raised |-> "none", ran |-> <<>>,
     delivered |-> FALSE]

\* if not self.check(): success = False, unless an exception has already left
\* the run; ran lists the checks started, delivered tells that the
\* KeyboardInterrupt has arrived
Then(st, check, binary, outcome, interrupt) ==
    IF st.raised # "none" THEN st
    ELSE [success |-> st.success /\ outcome.ok,
          out |-> st.out \o outcome.out,
          raised |-> outcome.raised,
          ran |-> Append(st.ran, [check |-> check, binary |-> binary,
                                  ok |-> outcome.ok,
                                  returned |-> outcome.raised = "none"]),
          delivered |-> st.delivered \/ interrupt]

\* one pass of the loop over binaries; slot: the position of its first check
BinaryChecks(impl, st, b, k, interrupt_at) ==
    IF st.raised # "none" THEN st
    ELSE IF b[binaries[k]].kind = "file"
    THEN LET slot == 2 + 2 * k
             scanned == Then(st, "security", binaries[k],
                             BinarySecurityOutcome(impl, b[binaries[k]], interrupt_at = slot),
                             interrupt_at = slot)
         IN Then(scanned, "permissions", binaries[k],
                 BinaryPermissionsOutcome(impl, b[binaries[k]], interrupt_at = slot + 1),
                 interrupt_at = slot + 1)
    ELSE [st EXCEPT !.out = Append(@, Info("Binary not found (skipping)"))]

\* the end of a run, unless an exception has left it: the message, and for
\* run_all_checks return 0 / return 1
Summary(st, passed, failed) ==
    [success |-> st.raised = "none" /\ st.success,
     status |-> IF st.raised = "none" /\ st.success THEN 0 ELSE 1,
     out |-> IF st.raised # "none" THEN st.out
             ELSE IF st.success THEN Append(st.out, Success(passed))
             ELSE Append(st.out, Error(failed)),
     raised |-> st.raised, ran |-> st.ran, delivered |-> st.delivered]

\* # Final status
FinalStatus(st) ==
    Summary(st, "All additional security checks passed", "Some security checks failed")

\* for binary in binaries, from the k-th on
RECURSIVE BinariesLoop(_, _, _, _, _)
BinariesLoop(impl, st, b, k, interrupt_at) ==
    IF k > Len(binaries) THEN st
    ELSE BinariesLoop(impl, BinaryChecks(impl, st, b, k, interrupt_at), b, k + 1,
                      interrupt_at)

\* run_all_checks(): the run up to its end or to the exception that leaves it
RunAllChecks(impl, files, e, b, interrupt_at) ==
    LET s0 == Started(<<Info("Starting additional security checks for go-safe-cmd-runner")>>)
        s1 == Then(s0, "build_environment", "none",
                   CheckBuildEnvironment(e, interrupt_at = 1), interrupt_at = 1)
        s2 == Then(s1, "build_tags", "none",
                   BuildTagsOutcome(files, interrupt_at = 2), interrupt_at = 2)
        s3 == Then(s2, "patterns", "none",
                   ForbiddenPatternsOutcome(impl, files, interrupt_at = 3), interrupt_at = 3)
    IN FinalStatus(BinariesLoop(impl, s3, b, 1, interrupt_at))

(***************************************************************************)
(* security_checker.py: validate_production_binaries and                   *)
(* run_build_security_check                                                *)
(***************************************************************************)
\* the pass of the loop for a binary that is there, from the results p and s
\* of its permission check and of its scan
Validated(file, binary_name, p, s) ==
    [ok |-> p.ok /\ s.ok,
     out |-> <<Info("--- Validating"), Info("Binary size")>> \o p.out \o s.out
             \o (IF binary_name # "runner" THEN <<>>
                 ELSE IF ~HasBit(file.mode, S_ISUID)
                 THEN <<Warning("Runner binary does not have setuid bit (this is expected in CI)")>>
                 ELSE <<Success("Runner binary has setuid bit set")>>)]

\* one pass of the loop over ["record", "verify", "runner"]
ValidateBinary(file, binary_name) ==
    IF file.kind # "file"
    THEN [ok |-> FALSE,
          out |-> <<Info("--- Validating"), Error("Binary not found")>>]
    ELSE Validated(file, binary_name, CheckBinaryPermissions(file),
                   CheckBinarySecurity(file, "none"))

\* binaries = ["record", "verify", "runner"]
validated == <<"record", "verify", "runner">>

\* all_passed and what is printed, from the results r of the three passes
AllValidated(r) ==
    [ok |-> \A k \in 1..Len(r) : r[k].ok,
     out |-> <<Info("=== Production Binary Validation ===")>>
             \o r[1].out \o r[2].out \o r[3].out
             \o <<IF \A k \in 1..Len(r) : r[k].ok
                  THEN Success("=== All production binaries passed validation ===")
                  ELSE Error("=== Some production binaries failed validation ===")>>]

\* validate_production_binaries()
ValidateProductionBinaries(b, e) ==
    IF ~e.build_prod
    THEN [ok |-> FALSE,
          out |-> <<Info("=== Production Binary Validation ==="),
                    Error("Production build directory not found. Run 'make build' first.")>>]
    ELSE AllValidated([k \in 1..Len(validated) |->
                          ValidateBinary(b[validated[k]], validated[k])])

\* Step 2 of run_build_security_check: go mod tidy, then git diff --name-only
GoModulesOutcome(e) ==
    LET tidy_exc == run_command(e.go = "found", e.tidy, TRUE)
        diff_exc == run_command(e.git = "found", e.diff, FALSE)
    IN IF tidy_exc # "none"
       THEN IF CaughtAsCalledProcessError(tidy_exc)
            THEN Returned([ok |-> FALSE, out |-> <<Error("Go modules check failed")>>])
            ELSE Raised(<<>>, tidy_exc)
       ELSE IF diff_exc # "none"
       THEN IF CaughtAsCalledProcessError(diff_exc)
            THEN Returned([ok |-> FALSE, out |-> <<Error("Go modules check failed")>>])
            ELSE Raised(<<>>, diff_exc)
       ELSE IF Strip(e.diff_out) # <<>>
       THEN Returned([ok |-> FALSE,
                      out |-> <<Error("go mod tidy resulted in changes. Please commit the changes first.")>>])
       ELSE Returned([ok |-> TRUE, out |-> <<Success("Go modules are up to date")>>])

\* Step 5 of run_build_security_check
ProductionBinariesOutcome(b, e) ==
    IF e.build_prod /\ \E k \in 1..Len(binaries) : b[binaries[k]].kind # "missing"
    THEN Returned(ValidateProductionBinaries(b, e))
    ELSE Returned([ok |-> TRUE,
                   out |-> <<Info("No production binaries found - skipping binary validation")>>])

\* self.print_info(message) between the steps, if the run is still going
Step(st, message) ==
    IF st.raised # "none" THEN st ELSE [st EXCEPT !.out = Append(@, Info(message))]

\* run_build_security_check()
RunBuildSecurityCheck(files, e, b) ==
    LET s0 == Step(Started(<<Info("=== Build Security Check ===")>>),
                   "--- Step 1: Build Environment ---")
        s1 == Step(Then(s0, "build_environment", "none",
                        CheckBuildEnvironment(e, FALSE), FALSE),
                   "--- Step 2: Go Modules Verification ---")
        s2 == Step(Then(s1, "go_modules", "none", GoModulesOutcome(e), FALSE),
                   "--- Step 3: Build Tags ---")
        s3 == Step(Then(s2, "build_tags", "none", BuildTagsOutcome(files, FALSE), FALSE),
                   "--- Step 4: Code Patterns ---")
        s4 == Step(Then(s3, "patterns", "none",
                        ForbiddenPatternsOutcome("checker", files, FALSE), FALSE),
                   "--- Step 5: Production Binaries ---")
    IN Summary(Step(Then(s4, "production_binaries", "none",
                         ProductionBinariesOutcome(b, e), FALSE),
                    "=== Build Security Check Summary ==="),
               "All build security checks passed", "Some build security checks failed")

(***************************************************************************)
(* additional-security-checks.py: main                                     *)
(***************************************************************************)
\* choices=['all', 'build-env', 'build-tags', 'patterns', 'binary']
Commands == {"all", "build-env", "build-tags", "patterns", "binary"}

\* check_binary_security(...) and check_binary_permissions(...): the
\* permissions are checked if the scan has passed
AndPermissions(scanned, file, interrupt_at) ==
    IF scanned.raised = "none" /\ scanned.success
    THEN Then(scanned, "permissions", "binary_path",
              BinaryPermissionsOutcome("script", file, interrupt_at = 2),
              interrupt_at = 2)
    ELSE scanned

\* the body of the try block of main, for the parsed arguments; binary_path:
\* whether the argument was given
MainBody(command, binary_path, files, e, b, file, interrupt_at) ==
    LET s0 == Started(<<>>)
    IN IF command = "build-env"
       THEN Then(s0, "build_environment", "none",
                 CheckBuildEnvironment(e, interrupt_at = 1), interrupt_at = 1)
       ELSE IF command = "build-tags"
       THEN Then(s0, "build_tags", "none",
                 BuildTagsOutcome(files, interrupt_at = 1), interrupt_at = 1)
       ELSE IF command = "patterns"
       THEN Then(s0, "patterns", "none",
                 ForbiddenPatternsOutcome("script", files, interrupt_at = 1),
                 interrupt_at = 1)
       ELSE IF command = "binary"
       THEN IF ~binary_path
            THEN [s0 EXCEPT !.success = FALSE,
                            !.out = <<Error("Binary path required for binary check")>>]
            ELSE AndPermissions(Then(s0, "security", "binary_path",
                                     BinarySecurityOutcome("script", file, interrupt_at = 1),
                                     interrupt_at = 1),
                                file, interrupt_at)
       ELSE RunAllChecks("script", files, e, b, interrupt_at)

\* what main returns: 130 from the KeyboardInterrupt handler, 1 from the
\* Exception handler, else 0 or 1 by success
MainStatus(body) ==
    IF body.raised = "KeyboardInterrupt" THEN 130
    ELSE IF body.raised # "none" THEN 1
    ELSE IF body.success THEN 0 ELSE 1

\* the handlers of main, after its try block
Handled(body) ==
    [success |-> body.raised = "none" /\ body.success,
     status |-> MainStatus(body),
     out |-> IF body.raised = "KeyboardInterrupt"
             THEN Append(body.out, Error("Interrupted by user"))
             ELSE IF body.raised # "none"
             THEN Append(body.out, Error("Unexpected error"))
             ELSE body.out,
     raised |-> body.raised, ran |-> body.ran, delivered |-> body.delivered]

\* main(): what it prints and the status it returns to sys.exit
Main(command, binary_path, files, e, b, file, interrupt_at) ==
    Handled(MainBody(command, binary_path, files, e, b, file, interrupt_at))

\* the checks a command may start, and so the points an interrupt may hit
Slots(command) ==
    IF command = "all" THEN 3 + 2 * Len(binaries)
    ELSE IF command = "binary" THEN 2
    ELSE 1

(***************************************************************************)
(* The explored inputs: the file at binary_path.                           *)
(***************************************************************************)
\* boundary bytes of the printable range
BoundaryBytes == {31, 32, 126, 127}

\* every byte sequence of length 0..n over BoundaryBytes
SeqsUpTo(S, n) == UNION {[1..k -> S] : k \in 0..n}

ByteFiles == SeqsUpTo(BoundaryBytes, MaxBytes)

\* 'NewManagerForTest'
rec_NewManagerForTest ==
    <<78, 101, 119, 77, 97, 110, 97, 103, 101, 114, 70, 111, 114, 84, 101, 115, 116>>
\* 'testing.T'
rec_testing_T ==
    <<116, 101, 115, 116, 105, 110, 103, 46, 84>>
\* 'a_test.go'
rec_a_test_go ==
    <<97, 95, 116, 101, 115, 116, 46, 103, 111>>
\* 'toolchain@v1/a_test.go'
rec_toolchain_a_test_go ==
    <<116, 111, 111, 108, 99, 104, 97, 105, 110, 64, 118, 49, 47, 97, 95, 116, 101,
      115, 116, 46, 103, 111>>
\* '/u/test.go'
rec_user_test_go ==
    <<47, 117, 47, 116, 101, 115, 116, 46, 103, 111>>
\* 'helper_testing.go'
rec_helper_testing_go ==
    <<104, 101, 108, 112, 101, 114, 95, 116, 101, 115, 116, 105, 110, 103, 46, 103, 111>>
\* '/go/pkg/mod/r/test.go'
rec_modcache_test_go ==
    <<47, 103, 111, 47, 112, 107, 103, 47, 109, 111, 100, 47, 114, 47, 116, 101, 115,
      116, 46, 103, 111>>
\* 'production code'
rec_production_code ==
    <<112, 114, 111, 100, 117, 99, 116, 105, 111, 110, 32, 99, 111, 100, 101>>

RecordPalette ==
    {rec_NewManagerForTest, rec_testing_T, rec_a_test_go, rec_toolchain_a_test_go,
     rec_user_test_go, rec_helper_testing_go, rec_modcache_test_go, rec_production_code}

\* the records, each but the last followed by a \x00 byte, then the tail
RECURSIVE JoinRecords(_, _)
JoinRecords(recs, tail) ==
    IF Len(recs) = 0 THEN tail
    ELSE IF Len(recs) = 1 THEN recs[1] \o tail
    ELSE recs[1] \o <<0>> \o JoinRecords(Tail(recs), tail)

\* recs with its first record written n times
RECURSIVE RepeatFirst(_, _)
RepeatFirst(recs, n) == IF n <= 1 THEN recs ELSE <<recs[1]>> \o RepeatFirst(recs, n - 1)

\* files of 1..MaxRecs palette records, the first of them written once or
\* MaxRep times, ending at the last record or with a \xff byte
RecordFiles ==
    {JoinRecords(RepeatFirst(recs, n), tail) :
        recs \in (SeqsUpTo(RecordPalette, MaxRecs) \ {<<>>}),
        n \in {1, MaxRep},
        tail \in {<<>>, <<255>>}}

\* 0o755
Mode755 == 493
Modes == 0..511

File(kind, io, data, mode) == [kind |-> kind, io |-> io, data |-> data, mode |-> mode]

FileStates ==
    {File("missing", "oserror", <<>>, 0), File("directory", "oserror", <<>>, 0)}
    \cup {File("file", "ok", d, Mode755) : d \in ByteFiles \cup RecordFiles}
    \cup {File("file", "oserror", JoinRecords(<<r>>, <<>>), Mode755) : r \in RecordPalette}
    \cup {File("file", "ok", <<>>, m) : m \in Modes}

MinLengths == {1, 2, 4, 10}
Faults == {"none", "extract", "analysis"}

(***************************************************************************)
(* The explored inputs: the source tree.                                   *)
(***************************************************************************)
\* main.go
path_main ==
    <<<<109, 97, 105, 110, 46, 103, 111>>>>
\* vendor/lib/manager_testing.go
path_vendored ==
    <<<<118, 101, 110, 100, 111, 114>>,
      <<108, 105, 98>>,
      <<109, 97, 110, 97, 103, 101, 114, 95, 116, 101, 115, 116, 105, 110, 103, 46, 103,
      111>>>>
\* internal/verification/manager_testing.go
path_verification ==
    <<<<105, 110, 116, 101, 114, 110, 97, 108>>,
      <<118, 101, 114, 105, 102, 105, 99, 97, 116, 105, 111, 110>>,
      <<109, 97, 110, 97, 103, 101, 114, 95, 116, 101, 115, 116, 105, 110, 103, 46, 103,
      111>>>>
\* pkg/a_test.go
path_test ==
    <<<<112, 107, 103>>,
      <<97, 95, 116, 101, 115, 116, 46, 103, 111>>>>
\* internal/cmdcommon/common.go
path_common ==
    <<<<105, 110, 116, 101, 114, 110, 97, 108>>,
      <<99, 109, 100, 99, 111, 109, 109, 111, 110>>,
      <<99, 111, 109, 109, 111, 110, 46, 103, 111>>>>
\* pkg/helper_testing.go
path_helper ==
    <<<<112, 107, 103>>,
      <<104, 101, 108, 112, 101, 114, 95, 116, 101, 115, 116, 105, 110, 103, 46, 103, 111>>>>
\* the paths of the explored trees, in the order of the walk
PathPalette ==
    <<path_main, path_vendored, path_verification, path_test, path_common, path_helper>>

\* 'package main\n'
text_plain ==
    <<112, 97, 99, 107, 97, 103, 101, 32, 109, 97, 105, 110, 10>>
\* '  //go:build test\n\npackage main\n'
text_tagged ==
    <<32, 32, 47, 47, 103, 111, 58, 98, 117, 105, 108, 100, 32, 116, 101, 115, 116, 10,
      10, 112, 97, 99, 107, 97, 103, 101, 32, 109, 97, 105, 110, 10>>
\* 'package main\n//go:build test\n'
text_tag_after ==
    <<112, 97, 99, 107, 97, 103, 101, 32, 109, 97, 105, 110, 10, 47, 47, 103, 111, 58,
      98, 117, 105, 108, 100, 32, 116, 101, 115, 116, 10>>
\* 'package main\n--hash-directory\n'
text_hash_flag ==
    <<112, 97, 99, 107, 97, 103, 101, 32, 109, 97, 105, 110, 10, 45, 45, 104, 97, 115,
      104, 45, 100, 105, 114, 101, 99, 116, 111, 114, 121, 10>>
\* 'package main\nnewManagerInternal()\n'
text_constructor ==
    <<112, 97, 99, 107, 97, 103, 101, 32, 109, 97, 105, 110, 10, 110, 101, 119, 77, 97,
      110, 97, 103, 101, 114, 73, 110, 116, 101, 114, 110, 97, 108, 40, 41, 10>>
\* 'package main\n.gocmdhashes go-safe-cmd-runner/hashes\n'
text_hash_dir ==
    <<112, 97, 99, 107, 97, 103, 101, 32, 109, 97, 105, 110, 10, 46, 103, 111, 99, 109,
      100, 104, 97, 115, 104, 101, 115, 32, 103, 111, 45, 115, 97, 102, 101, 45,
      99, 109, 100, 45, 114, 117, 110, 110, 101, 114, 47, 104, 97, 115, 104, 101,
      115, 10>>
\* b'--hash-directory newManagerInternal\xff': no UTF-8 text
text_undecodable ==
    <<45, 45, 104, 97, 115, 104, 45, 100, 105, 114, 101, 99, 116, 111, 114, 121, 32,
      110, 101, 119, 77, 97, 110, 97, 103, 101, 114, 73, 110, 116, 101, 114, 110,
      97, 108, 255>>

Texts ==
    {text_plain, text_tagged, text_tag_after, text_hash_flag, text_constructor,
     text_hash_dir, text_undecodable}

SourceFile(path, io, data) == [path |-> path, io |-> io, data |-> data]

\* what a path of the tree may hold: one of the texts, or a file that open()
\* refuses with an IOError
Holdings ==
    {[io |-> "ok", data |-> t] : t \in Texts}
    \cup {[io |-> "oserror", data |-> text_constructor]}

\* the members of a set of positions, in increasing order
Ascending(S) ==
    [k \in 1..Cardinality(S) |-> CHOOSE i \in S : Cardinality({j \in S : j < i}) = k - 1]

\* the trees of at most MaxFiles files at distinct paths of the palette
Trees ==
    UNION {{[k \in 1..Cardinality(S) |->
                SourceFile(PathPalette[Ascending(S)[k]],
                           h[Ascending(S)[k]].io, h[Ascending(S)[k]].data)] :
             h \in [S -> Holdings]} :
           S \in {T \in SUBSET (1..Len(PathPalette)) : Cardinality(T) <= MaxFiles}}

(***************************************************************************)
(* The explored inputs: the build environment and the declared binaries.   *)
(***************************************************************************)
\* the go and git executables, the exit status of the commands, go.mod, the
\* output of git diff --name-only, and the directory build/prod
SoundEnvironment ==
    [go |-> "found", version |-> 0, go_mod |-> TRUE, verify |-> 0, tidy |-> 0,
     git |-> "found", diff |-> 0, diff_out |-> <<>>, build_prod |-> FALSE]

Missing == File("missing", "oserror", <<>>, 0)
NoBinaries == [runner |-> Missing, record |-> Missing, verify |-> Missing]

\* 'go.mod\n' and '\n', outputs of git diff --name-only
diff_names == <<103, 111, 46, 109, 111, 100, 10>>
diff_blank == <<10>>

\* the environments: a missing executable exits with no status of its own,
\* and build/prod may exist while it is empty
Environments ==
    {e \in [go : {"found", "missing"}, version : {0, 1}, go_mod : BOOLEAN,
            verify : {0, 1}, tidy : {0, 1},
            git : {"found", "missing"}, diff : {0, 128},
            diff_out : {<<>>, diff_names, diff_blank}, build_prod : BOOLEAN] :
        /\ e.go = "missing" => e.version = 0 /\ e.verify = 0 /\ e.tidy = 0
        /\ e.git = "missing" => e.diff = 0 /\ e.diff_out = <<>>}

\* the environments run together with trees and binaries: sound, go missing,
\* go failing, go.mod missing, go mod verify failing, each with build/prod
KeyEnvironments ==
    {e \in Environments :
        /\ e.build_prod /\ e.tidy = 0 /\ e.git = "found" /\ e.diff = 0 /\ e.diff_out = <<>>
        \* at most one thing is wrong
        /\ Cardinality({x \in {"go", "version", "go_mod", "verify"} :
                \/ x = "go" /\ e.go = "missing"
                \/ x = "version" /\ e.version # 0
                \/ x = "go_mod" /\ ~e.go_mod
                \/ x = "verify" /\ e.verify # 0}) <= 1}

\* the trees run together with environments and binaries: empty, a file that
\* fails the build-tag gate, a forbidden flag, a hardcoded hash directory
KeyTrees ==
    {<<>>,
     <<SourceFile(path_helper, "ok", text_plain)>>,
     <<SourceFile(path_main, "ok", text_hash_flag)>>,
     <<SourceFile(path_main, "ok", text_hash_dir)>>}

\* a declared binary: missing, a directory, clean with mode 0755, with a test
\* function, clean with mode 0644, clean with mode 04755
KeyBinaries ==
    {Missing,
     File("directory", "oserror", <<>>, 0),
     File("file", "ok", rec_production_code, Mode755),
     File("file", "ok", rec_NewManagerForTest, Mode755),
     File("file", "ok", rec_production_code, 420),
     File("file", "ok", rec_production_code, 2541)}

(***************************************************************************)
(* The checker object and the calls made on it.                            *)
(***************************************************************************)
Idle == [op |-> "idle", impl |-> "none", min_length |-> 0, fault |-> "none"]
Call(op, impl, min_length, fault) ==
    [op |-> op, impl |-> impl, min_length |-> min_length, fault |-> fault]
NoRet == [ok |-> TRUE, strings |-> <<>>]

\* SecurityChecker.__init__: self.exit_code = 0
Init ==
    /\ fs \in FileStates
    /\ tree = <<>>
    /\ env = SoundEnvironment
    /\ bins = NoBinaries
    /\ call = Idle
    /\ ret = NoRet
    /\ out = <<>>
    /\ exit_code = 0

\* security_checker.py: extract_strings_from_binary(binary_path, min_length)
extract_strings_from_binary ==
    /\ call.op = "idle"
    /\ \E min_length \in MinLengths :
        /\ call' = Call("extract", "checker", min_length, "none")
        /\ ret' = [ok |-> TRUE, strings |-> ExtractedStrings(fs, min_length)]
    /\ out' = <<>>
    /\ UNCHANGED <<fs, tree, env, bins, exit_code>>

\* additional-security-checks.py: extract_strings_from_binary(binary_path, min_length)
script_extract_strings_from_binary ==
    /\ call.op = "idle"
    /\ \E min_length \in MinLengths :
        /\ call' = Call("extract", "script", min_length, "none")
        /\ ret' = [ok |-> TRUE, strings |-> ScriptExtractedStrings(fs, min_length)]
    /\ out' = ScriptExtractOut(fs)
    /\ UNCHANGED <<fs, tree, env, bins, exit_code>>

\* security_checker.py: check_binary_security(binary_path)
check_binary_security ==
    /\ call.op = "idle"
    /\ \E fault \in Faults :
        LET r == CheckBinarySecurity(fs, fault)
        IN /\ call' = Call("security", "checker", DefaultMinLength, fault)
           /\ ret' = [ok |-> r.ok, strings |-> <<>>]
           /\ out' = r.out
    /\ UNCHANGED <<fs, tree, env, bins, exit_code>>

\* additional-security-checks.py: check_binary_security(binary_path)
script_check_binary_security ==
    /\ call.op = "idle"
    /\ \E fault \in Faults :
        LET r == ScriptCheckBinarySecurity(fs, fault)
        IN /\ call' = Call("security", "script", DefaultMinLength, fault)
           /\ ret' = [ok |-> r.ok, strings |-> <<>>]
           /\ out' = r.out
    /\ UNCHANGED <<fs, tree, env, bins, exit_code>>

\* security_checker.py: check_binary_permissions(binary_path)
check_binary_permissions ==
    /\ call.op = "idle"
    /\ LET r == CheckBinaryPermissions(fs)
       IN /\ call' = Call("permissions", "checker", 0, "none")
          /\ ret' = [ok |-> r.ok, strings |-> <<>>]
          /\ out' = r.out
    /\ UNCHANGED <<fs, tree, env, bins, exit_code>>

\* additional-security-checks.py: check_binary_permissions(binary_path)
script_check_binary_permissions ==
    /\ call.op = "idle"
    /\ LET r == ScriptCheckBinaryPermissions(fs)
       IN /\ call' = Call("permissions", "script", 0, "none")
          /\ ret' = [ok |-> r.ok, strings |-> <<>>]
          /\ out' = r.out
    /\ UNCHANGED <<fs, tree, env, bins, exit_code>>

\* the call has returned and the caller makes its next call on the same object
Return ==
    /\ call.op # "idle"
    /\ call' = Idle
    /\ ret' = NoRet
    /\ out' = <<>>
    /\ UNCHANGED <<fs, tree, env, bins, exit_code>>

Next ==
    \/ extract_strings_from_binary
    \/ script_extract_strings_from_binary
    \/ check_binary_security
    \/ script_check_binary_security
    \/ check_binary_permissions
    \/ script_check_binary_permissions
    \/ Return

Spec == Init /\ [][Next]_vars


(***************************************************************************)
(* The calls of the source-tree checks, on a tree of the explored set.     *)
(***************************************************************************)
InitTree ==
    /\ fs = Missing
    /\ tree \in Trees
    /\ env = SoundEnvironment
    /\ bins = NoBinaries
    /\ call = Idle
    /\ ret = NoRet
    /\ out = <<>>
    /\ exit_code = 0

\* check_build_tags(), the same code in both files
check_build_tags ==
    /\ call.op = "idle"
    /\ \E impl \in {"checker", "script"} :
        call' = Call("build_tags", impl, 0, "none")
    /\ LET r == CheckBuildTags(tree)
       IN /\ ret' = [ok |-> r.ok, strings |-> <<>>]
          /\ out' = r.out
    /\ UNCHANGED <<fs, tree, env, bins, exit_code>>

\* security_checker.py: check_forbidden_patterns()
check_forbidden_patterns ==
    /\ call.op = "idle"
    /\ LET r == CheckForbiddenPatterns(tree)
       IN /\ call' = Call("patterns", "checker", 0, "none")
          /\ ret' = [ok |-> r.ok, strings |-> <<>>]
          /\ out' = r.out
    /\ UNCHANGED <<fs, tree, env, bins, exit_code>>

\* additional-security-checks.py: check_forbidden_patterns()
script_check_forbidden_patterns ==
    /\ call.op = "idle"
    /\ LET r == ScriptCheckForbiddenPatterns(tree)
       IN /\ call' = Call("patterns", "script", 0, "none")
          /\ ret' = [ok |-> r.ok, strings |-> <<>>]
          /\ out' = r.out
    /\ UNCHANGED <<fs, tree, env, bins, exit_code>>

NextTree ==
    \/ check_build_tags
    \/ check_forbidden_patterns
    \/ script_check_forbidden_patterns
    \/ Return

SpecTree == InitTree /\ [][NextTree]_vars

(***************************************************************************)
(* The calls of the build-environment check, of the runs of all checks and *)
(* of main, on an environment, a tree and binaries of the explored sets.   *)
(***************************************************************************)
InitRun ==
    /\ \/ /\ env \in Environments
          /\ tree = <<>>
          /\ bins = NoBinaries
       \/ /\ env \in KeyEnvironments
          /\ tree \in KeyTrees
          /\ bins \in [runner : KeyBinaries, record : KeyBinaries, verify : KeyBinaries]
    /\ fs = bins.runner
    /\ call = Idle
    /\ ret = NoRet
    /\ out = <<>>
    /\ exit_code = 0

\* the result of a call that runs checks: status is what the call returns
\* when no exception has left it
RunRet(ok, status, raised, ran, delivered) ==
    [ok |-> ok, strings |-> <<>>, status |-> status, raised |-> raised,
     ran |-> ran, delivered |-> delivered]

\* the call c ends as the check r has ended
CheckReturns(c, r) ==
    /\ call' = c
    /\ ret' = RunRet(r.ok, 0, r.raised, <<>>, FALSE)
    /\ out' = r.out

\* the call c ends as the run of checks has ended
RunReturns(c, run) ==
    /\ call' = c
    /\ ret' = RunRet(run.success, run.status, run.raised, run.ran, run.delivered)
    /\ out' = run.out

\* check_build_environment(), the same code in both files
check_build_environment ==
    /\ call.op = "idle"
    /\ \E impl \in {"checker", "script"} :
        CheckReturns(Call("build_environment", impl, 0, "none"),
                  CheckBuildEnvironment(env, FALSE))
    /\ UNCHANGED <<fs, tree, env, bins, exit_code>>

\* variant: the run stores its status in the object
run_all_checks_storing_status ==
    /\ call.op = "idle"
    /\ RunReturns(Call("run_all", "checker", 0, "none"),
               RunAllChecks("checker", tree, env, bins, 0))
    /\ exit_code' = ret'.status
    /\ UNCHANGED <<fs, tree, env, bins>>

\* security_checker.py: run_all_checks()
run_all_checks ==
    /\ call.op = "idle"
    /\ RunReturns(Call("run_all", "checker", 0, "none"),
               RunAllChecks("checker", tree, env, bins, 0))
    /\ UNCHANGED <<fs, tree, env, bins, exit_code>>

\* additional-security-checks.py: run_all_checks()
script_run_all_checks ==
    /\ call.op = "idle"
    /\ RunReturns(Call("run_all", "script", 0, "none"),
               RunAllChecks("script", tree, env, bins, 0))
    /\ UNCHANGED <<fs, tree, env, bins, exit_code>>

\* security_checker.py: validate_production_binaries()
validate_production_binaries ==
    /\ call.op = "idle"
    /\ CheckReturns(Call("validate", "checker", 0, "none"),
                 Returned(ValidateProductionBinaries(bins, env)))
    /\ UNCHANGED <<fs, tree, env, bins, exit_code>>

\* security_checker.py: run_build_security_check()
run_build_security_check ==
    /\ call.op = "idle"
    /\ RunReturns(Call("build_security", "checker", 0, "none"),
               RunBuildSecurityCheck(tree, env, bins))
    /\ UNCHANGED <<fs, tree, env, bins, exit_code>>

\* additional-security-checks.py: main(), with the command line and the
\* check during which a KeyboardInterrupt arrives (0: none)
script_main ==
    /\ call.op = "idle"
    /\ \E command \in Commands :
       \E binary_path \in (IF command = "binary" THEN BOOLEAN ELSE {FALSE}) :
       \E interrupt_at \in 0..Slots(command) :
          RunReturns([op |-> "main", impl |-> "script", min_length |-> 0,
                      fault |-> "none", command |-> command,
                      binary_path |-> binary_path, interrupt_at |-> interrupt_at],
                     Main(command, binary_path, tree, env, bins, fs, interrupt_at))
    /\ UNCHANGED <<fs, tree, env, bins, exit_code>>

NextRun ==
    \/ check_build_environment
    \/ run_all_checks
    \/ script_run_all_checks
    \/ validate_production_binaries
    \/ run_build_security_check
    \/ script_main
    \/ Return

SpecRun == InitRun /\ [][NextRun]_vars

(***************************************************************************)
(* Every operation, called in any order on one checker object, on the      *)
(* inputs of the runs; binary_path is the first declared binary.           *)
(***************************************************************************)
NextAll ==
    \/ extract_strings_from_binary
    \/ script_extract_strings_from_binary
    \/ check_binary_security
    \/ script_check_binary_security
    \/ check_binary_permissions
    \/ script_check_binary_permissions
    \/ check_build_tags
    \/ check_forbidden_patterns
    \/ script_check_forbidden_patterns
    \/ check_build_environment
    \/ run_all_checks
    \/ script_run_all_checks
    \/ validate_production_binaries
    \/ run_build_security_check
    \/ script_main
    \/ Return

SpecAll == InitRun /\ [][NextAll]_vars

(***************************************************************************)
(* Reference notions the properties are stated with.                       *)
(***************************************************************************)
RefPrintable(b) == b \in 32..126

\* p occurs in s as a contiguous block
Occurs(p, s) ==
    \E i \in 1..(Len(s) - Len(p) + 1) : SubSeq(s, i, i + Len(p) - 1) = p

\* first and last positions of the maximal printable runs of data
RunStarts(data) ==
    {a \in 1..Len(data) : RefPrintable(data[a]) /\ (a = 1 \/ ~RefPrintable(data[a - 1]))}
RunEnds(data) ==
    {b \in 1..Len(data) :
        RefPrintable(data[b]) /\ (b = Len(data) \/ ~RefPrintable(data[b + 1]))}

\* the maximal printable runs of data, by offset
RefRuns(data) ==
    LET starts == RunStarts(data)
        ends == RunEnds(data)
        nth(k) == CHOOSE a \in starts : Cardinality({x \in starts : x < a}) = k - 1
        endOf(a) == CHOOSE b \in ends : b >= a /\ \A c \in ends : c >= a => b <= c
    IN [k \in 1..Cardinality(starts) |-> SubSeq(data, nth(k), endOf(nth(k)))]

\* the reference scanner: split on non-printable bytes, keep the long segments
RefStrings(data, m) == SelectSeq(RefRuns(data), LAMBDA r : Len(r) >= m)

\* the printable run that reaches the end of data
TrailingRun(data) ==
    LET stops == {k \in 1..Len(data) : ~RefPrintable(data[k])}
        last == IF stops = {} THEN 0 ELSE CHOOSE k \in stops : \A j \in stops : j <= k
    IN SubSeq(data, last + 1, Len(data))

RefHard(s) == \E k \in 1..Len(test_patterns) : Occurs(test_patterns[k], s)
RefSoft(s) == \E k \in 1..Len(user_test_patterns) : Occurs(user_test_patterns[k], s)
RefSuppressed(s) == \E k \in 1..Len(suppression_patterns) : Occurs(suppression_patterns[k], s)

\* the strings a scan of the binary works on
ScannedStrings == IF CanRead(fs) THEN RefStrings(fs.data, DefaultMinLength) ELSE <<>>
Elems(seq) == {seq[i] : i \in 1..Len(seq)}

Kinds(lines) == {lines[i].kind : i \in 1..Len(lines)}
PrintedStrings(lines) ==
    LET shown == SelectSeq(lines, LAMBDA l : l.kind = "print")
    IN [i \in 1..Len(shown) |-> shown[i].str]

Called(op, impl) == call.op = op /\ call.impl = impl

(***************************************************************************)
(* Properties.                                                             *)
(***************************************************************************)
\* C1: for every readable file content and minimum length, the checker's
\* extract_strings_from_binary returns exactly the maximal printable runs of
\* length >= the minimum, in offset order and without deduplication, as the
\* reference scanner does.
C1_ExtractMatchesReference ==
    (Called("extract", "checker") /\ CanRead(fs))
        => ret.strings = RefStrings(fs.data, call.min_length)

\* two equal runs are both returned, and a shorter run between was dropped
C1_Witness ==
    /\ Called("extract", "checker") /\ CanRead(fs)
    /\ Len(ret.strings) >= 2
    /\ ret.strings[1] = ret.strings[2]
    /\ Len(ret.strings) < Len(RefRuns(fs.data))

\* C2: for a minimum length m in {1,2,4,10}, no string returned by
\* extract_strings_from_binary is shorter than m and none contains a byte
\* outside [32,126].
C2_LengthAndRange ==
    (Called("extract", "checker") /\ call.min_length \in {1, 2, 4, 10})
        => \A i \in 1..Len(ret.strings) :
              /\ Len(ret.strings[i]) >= call.min_length
              /\ \A k \in 1..Len(ret.strings[i]) :
                    32 <= ret.strings[i][k] /\ ret.strings[i][k] <= 126

\* with minimum 10 a run is returned while a run of 9 bytes was dropped
C2_Witness ==
    /\ Called("extract", "checker") /\ call.min_length = 10
    /\ ret.strings # <<>>
    /\ \E i \in 1..Len(RefRuns(fs.data)) : Len(RefRuns(fs.data)[i]) = 9

\* C3: when the file ends inside a printable run of length >= the minimum,
\* that run is the last string returned, by either extractor; this includes a
\* file made of printable bytes only.
C3_TrailingRunFlushed ==
    (/\ call.op = "extract" /\ CanRead(fs)
     /\ Len(fs.data) > 0 /\ RefPrintable(fs.data[Len(fs.data)])
     /\ Len(TrailingRun(fs.data)) >= call.min_length)
        => /\ ret.strings # <<>>
           /\ ret.strings[Len(ret.strings)] = TrailingRun(fs.data)

\* the file holds a non-printable byte and ends in a run that is returned last
C3_Witness ==
    /\ Called("extract", "checker") /\ CanRead(fs)
    /\ Len(fs.data) > 0 /\ RefPrintable(fs.data[Len(fs.data)])
    /\ \E k \in 1..Len(fs.data) : ~RefPrintable(fs.data[k])
    /\ Len(ret.strings) >= 2
    /\ ret.strings[Len(ret.strings)] = TrailingRun(fs.data)

\* a scan by the checker that ran to its verdict on a read binary
ScannedByChecker ==
    Called("security", "checker") /\ CanRead(fs) /\ call.fault = "none"

\* C4: for an existing binary, when an extracted string contains a hard-fail
\* pattern, check_binary_security returns FAIL, also when that string holds a
\* suppression substring and when no string matches a soft-fail pattern.
C4_HardFailAlwaysFails ==
    (ScannedByChecker /\ \E s \in Elems(ScannedStrings) : RefHard(s))
        => ret.ok = FALSE

\* the only hard-fail match sits in suppressed strings and nothing else fails
C4_Witness ==
    /\ ScannedByChecker
    /\ \E s \in Elems(ScannedStrings) : RefHard(s)
    /\ \A s \in Elems(ScannedStrings) : (RefHard(s) \/ RefSoft(s)) => RefSuppressed(s)
    /\ ret.ok = FALSE

\* C5: suppression is per string: a string with a soft-fail pattern and no
\* suppression substring makes check_binary_security return FAIL whatever the
\* other strings are, and without a hard-fail match the check fails only when
\* such a string exists.
C5_SuppressionPerString ==
    ScannedByChecker
        => /\ (\E s \in Elems(ScannedStrings) : RefSoft(s) /\ ~RefSuppressed(s))
                => ret.ok = FALSE
           /\ (ret.ok = FALSE /\ ~\E s \in Elems(ScannedStrings) : RefHard(s))
                => \E s \in Elems(ScannedStrings) : RefSoft(s) /\ ~RefSuppressed(s)

\* a suppressed and an unsuppressed string hold the same soft-fail pattern,
\* no hard-fail pattern is present, and the check fails
C5_Witness ==
    /\ ScannedByChecker
    /\ ~\E s \in Elems(ScannedStrings) : RefHard(s)
    /\ \E k \in 1..Len(user_test_patterns) :
          /\ \E s \in Elems(ScannedStrings) :
                Occurs(user_test_patterns[k], s) /\ RefSuppressed(s)
          /\ \E s \in Elems(ScannedStrings) :
                Occurs(user_test_patterns[k], s) /\ ~RefSuppressed(s)
    /\ ret.ok = FALSE

\* C6: for an existing readable binary with no hard-fail match whose soft-fail
\* matches are all suppressed, check_binary_security returns PASS and prints
\* no error, no warning and no matched string, only the success message.
C6_CleanBinaryPasses ==
    (/\ ScannedByChecker
     /\ ~\E s \in Elems(ScannedStrings) : RefHard(s)
     /\ \A s \in Elems(ScannedStrings) : RefSoft(s) => RefSuppressed(s))
        => /\ ret.ok = TRUE
           /\ Kinds(out) \subseteq {"info", "success"}
           /\ Len(SelectSeq(out, LAMBDA l : l.kind = "success")) = 1
           /\ out[Len(out)] = Success("No test artifacts found in binary")

\* a binary passes although one of its strings holds a soft-fail pattern
C6_Witness ==
    /\ ScannedByChecker
    /\ \E s \in Elems(ScannedStrings) : RefSoft(s) /\ RefSuppressed(s)
    /\ ret.ok = TRUE
    /\ Kinds(out) = {"info", "success"}

\* the position in test_patterns of the first pattern some scanned string holds
FirstHardPattern ==
    CHOOSE k \in 1..Len(test_patterns) :
        /\ \E s \in Elems(ScannedStrings) : Occurs(test_patterns[k], s)
        /\ \A j \in 1..(k - 1) :
              ~\E s \in Elems(ScannedStrings) : Occurs(test_patterns[j], s)

\* C7: the hard-fail scan tries 'NewManagerForTest', 'testing.T', '_test.go'
\* in this order; it prints the first 5 at most of the strings matching the
\* first pattern that matches, in extraction order, and nothing for a later
\* pattern: a string matching only a later pattern is never printed.
C7_FirstPatternWins ==
    (call.op = "security" /\ CanRead(fs) /\ call.fault = "none")
        => IF \E s \in Elems(ScannedStrings) : RefHard(s)
           THEN LET all == SelectSeq(ScannedStrings,
                               LAMBDA s : Occurs(test_patterns[FirstHardPattern], s))
                IN /\ Len(PrintedStrings(out)) <= 5
                   /\ PrintedStrings(out) =
                        SubSeq(all, 1, IF Len(all) < 5 THEN Len(all) ELSE 5)
                   /\ \A s \in Elems(PrintedStrings(out)) :
                        Occurs(test_patterns[FirstHardPattern], s)
           ELSE PrintedStrings(out) = <<>>

\* more than 5 strings match the first matching pattern, 5 are printed, and a
\* string that matches only a later pattern is left unprinted
C7_Witness ==
    /\ ScannedByChecker
    /\ \E s \in Elems(ScannedStrings) : RefHard(s)
    /\ Len(SelectSeq(ScannedStrings,
                     LAMBDA s : Occurs(test_patterns[FirstHardPattern], s))) > 5
    /\ Len(PrintedStrings(out)) = 5
    /\ \E s \in Elems(ScannedStrings) :
          /\ RefHard(s)
          /\ ~Occurs(test_patterns[FirstHardPattern], s)
          /\ s \notin Elems(PrintedStrings(out))

\* C8: when the binary cannot be opened or read, extract_strings_from_binary
\* returns the empty sequence and emits a warning, and check_binary_security
\* does not turn the I/O error into FAIL.
C8_UnreadableWarned ==
    /\ (call.op = "extract" /\ ~CanRead(fs))
          => ret.strings = <<>> /\ "warning" \in Kinds(out)
    /\ (call.op = "security" /\ fs.kind = "file" /\ ~CanRead(fs))
          => ret.ok = TRUE

\* C9: an exception raised by the extraction or the pattern analysis inside
\* check_binary_security for an existing binary is caught: the outcome is PASS
\* with a warning, never FAIL.
C9_ScanFailureIsPass ==
    (Called("security", "checker") /\ fs.kind = "file" /\ call.fault # "none")
        => /\ ret.ok = TRUE
           /\ out[Len(out)] = Warning("Failed to analyze binary strings")

\* the analysis breaks after test functions were reported, and the check passes
C9_Witness ==
    /\ Called("security", "checker") /\ fs.kind = "file" /\ call.fault = "analysis"
    /\ "error" \in Kinds(out)
    /\ ret.ok = TRUE

\* C10: on a path that is no regular file check_binary_permissions returns
\* pass, and check_binary_security on the same path returns FAIL.
C10_MissingBinary ==
    /\ (Called("permissions", "checker") /\ fs.kind # "file") => ret.ok = TRUE
    /\ (Called("security", "checker") /\ fs.kind # "file") => ret.ok = FALSE

\* the permission check has passed on a path that does not exist
C10_Witness ==
    /\ Called("permissions", "checker") /\ fs.kind = "missing"
    /\ ret.ok = TRUE /\ out = <<>>

\* the owner may read, and the owner may execute, a file of this mode
OwnerReads(mode) == (mode \div 256) % 2 = 1
OwnerExecutes(mode) == (mode \div 64) % 2 = 1

\* C11: for an existing file whose mode lacks owner-read or owner-execute,
\* check_binary_permissions returns False, whatever the group and other bits.
C11_OwnerAccessRequired ==
    (/\ Called("permissions", "checker") /\ fs.kind = "file"
     /\ ~(OwnerReads(fs.mode) /\ OwnerExecutes(fs.mode)))
        => ret.ok = FALSE

dir_internal ==
    <<105, 110, 116, 101, 114, 110, 97, 108>>
\* 'verification'
dir_verification ==
    <<118, 101, 114, 105, 102, 105, 99, 97, 116, 105, 111, 110>>

\* the file can be read and decoded: of the explored files those that open
\* and hold no byte 0xff
RefReadable(f) == f.io = "ok" /\ 255 \notin Elems(f.data)
RefVendored(f) == vendor \in Elems(f.path)
RefTestFile(f) ==
    LET n == f.path[Len(f.path)]
    IN Len(n) >= 8 /\ SubSeq(n, Len(n) - 7, Len(n)) = underscore_test_go
\* the file lies below a directory internal/verification
RefInVerification(f) ==
    \E i \in 1..(Len(f.path) - 2) :
        f.path[i] = dir_internal /\ f.path[i + 1] = dir_verification

\* the files that match sub-check (a), (b), (c)
RefMatchesA(f) ==
    RefReadable(f) /\ ~RefVendored(f) /\ Occurs(hash_directory_flag, f.data)
RefMatchesB(f) ==
    /\ RefReadable(f) /\ ~RefVendored(f)
    /\ ~RefTestFile(f) /\ ~RefInVerification(f)
    /\ Occurs(newManagerInternal, f.data)
RefMatchesC(f) ==
    /\ RefReadable(f) /\ ~RefVendored(f) /\ ~RefTestFile(f)
    /\ f.path # path_common
    /\ Occurs(hashes_dir, f.data)

\* the positions where a line of text starts
LineStarts(text) == {i \in 1..Len(text) : i = 1 \/ text[i - 1] = 10}
\* the line that starts at i reads p after its leading blanks
LineReads(text, i, p) ==
    \E j \in i..Len(text) :
        /\ \A k \in i..(j - 1) : text[k] \in {9, 32}
        /\ j + Len(p) - 1 <= Len(text)
        /\ SubSeq(text, j, j + Len(p) - 1) = p
\* a '//go:build test' line stands before every 'package ' line
RefMarkedBeforePackage(text) ==
    \E i \in LineStarts(text) :
        /\ LineReads(text, i, go_build_test)
        /\ \A p \in LineStarts(text) : LineReads(text, p, package_prefix) => i < p

\* the file is held to the build-tag gate
RefGated(f) ==
    LET n == f.path[Len(f.path)]
    IN /\ ~RefVendored(f)
       /\ \/ n = manager_testing_go
          \/ Len(n) >= 11 /\ SubSeq(n, Len(n) - 10, Len(n)) = underscore_testing_go
\* the readable gated files without the marker before their package line
RefOffending ==
    {f \in Elems(tree) : RefGated(f) /\ RefReadable(f) /\ ~RefMarkedBeforePackage(f.data)}

\* how many 'Could not read file' warnings were printed
ReadWarnings == Len(SelectSeq(out, LAMBDA l : l = Warning("Could not read file")))

C14_EmptyTreePasses ==
    (Called("patterns", "checker") /\ tree = <<>>)
        => /\ ret.ok = TRUE
           /\ out = <<Info("Checking for forbidden patterns in source code"),
                      Success("No forbidden patterns found")>>

\* the check has passed on the empty tree
C14_Witness ==
    /\ Called("patterns", "checker") /\ tree = <<>>
    /\ ret.ok = TRUE /\ PrintedStrings(out) = <<>>

\* C15: check_build_tags returns failure if and only if some readable
\* non-vendored file named 'manager_testing.go' or '..._testing.go' has no
\* '//go:build test' line before its package line; a marker after the package
\* line does not count, files of other names are not inspected, and the paths
\* printed are exactly those of the offending files, in the order of the walk.
C15_BuildTagGate ==
    call.op = "build_tags"
        => /\ ret.ok = FALSE <=> RefOffending # {}
           /\ PrintedStrings(out) =
                PathStrs(SelectSeq(tree, LAMBDA f : f \in RefOffending))

\* a gated file with the marker after its package line is reported, and an
\* unmarked file of another name is left alone
C15_Witness ==
    /\ call.op = "build_tags"
    /\ Len(tree) = 2
    /\ \E f \in RefOffending : Occurs(go_build_test, f.data)
    /\ \E f \in Elems(tree) : ~RefGated(f) /\ RefReadable(f) /\ ~Occurs(go_build_test, f.data)
    /\ ret.ok = FALSE
    /\ Len(PrintedStrings(out)) = 1

\* C16: in the build-tag gate and in the forbidden-pattern walks an inspected
\* file that cannot be read or decoded is skipped with a warning printed for
\* it, is counted neither as a match nor as a failure, and the check goes on
\* with the other files.
C16_UnreadableSkippedWithWarning ==
    /\ call.op = "build_tags"
          => /\ ReadWarnings =
                   Cardinality({f \in Elems(tree) : RefGated(f) /\ ~RefReadable(f)})
             /\ ret.ok = FALSE <=> RefOffending # {}
    /\ Called("patterns", "checker")
          => /\ ReadWarnings =
                   Cardinality({f \in Elems(tree) : ~RefVendored(f) /\ ~RefReadable(f)})
             /\ ret.ok = FALSE <=> \E f \in Elems(tree) : RefMatchesA(f) \/ RefMatchesB(f)

(***************************************************************************)
(* Reference notions for the runs of checks.                               *)
(***************************************************************************)
\* the checks of a declared binary that is a regular file
ChecksOf(binary) ==
    IF bins[binary].kind = "file"
    THEN <<[check |-> "security", binary |-> binary],
           [check |-> "permissions", binary |-> binary]>>
    ELSE <<>>

\* the checks run_all_checks is to run, in order
ExpectedRun ==
    <<[check |-> "build_environment", binary |-> "none"],
      [check |-> "build_tags", binary |-> "none"],
      [check |-> "patterns", binary |-> "none"]>>
    \o ChecksOf("runner") \o ChecksOf("record") \o ChecksOf("verify")

\* the checks a call has started, in order
RanChecks == [i \in 1..Len(ret.ran) |-> [check |-> ret.ran[i].check,
                                          binary |-> ret.ran[i].binary]]
AllReturned == \A i \in 1..Len(ret.ran) : ret.ran[i].returned
AllPassed == \A i \in 1..Len(ret.ran) : ret.ran[i].ok

\* the toolchain is missing or fails, go.mod is missing, or go mod verify fails
EnvironmentError ==
    env.go = "missing" \/ env.version # 0 \/ ~env.go_mod \/ env.verify # 0

\* C17: run_all_checks runs the build-environment check, the build-tag check,
\* the forbidden-pattern check, then the scan and the permission check of
\* each declared binary that exists, every one of them whatever the earlier
\* ones returned, and it returns 0 if all of them returned success, else 1.
C17_AllChecksRun ==
    call.op = "run_all"
        => /\ ret.raised = "none"
           /\ RanChecks = ExpectedRun
           /\ AllReturned
           /\ ret.status = (IF AllPassed THEN 0 ELSE 1)

\* C18: when the toolchain is missing or fails, go.mod is missing or go mod
\* verify fails, check_build_environment returns False, and in run_all_checks
\* the build-tag, forbidden-pattern and binary checks still run after it.
C18_EnvironmentErrorIsLocal ==
    /\ (call.op = "build_environment" /\ EnvironmentError)
          => ret.raised = "none" /\ ret.ok = FALSE
    /\ (call.op = "run_all" /\ EnvironmentError)
          => /\ ret.ran[1].returned /\ ~ret.ran[1].ok
             /\ RanChecks = ExpectedRun

\* C19: when go version, go mod verify, go mod tidy or git diff is run and
\* exits with a non-zero status, the check that runs it (the
\* build-environment check, run_build_security_check) reports failure.
C19_NonZeroExitFails ==
    /\ (/\ call.op = "build_environment" /\ env.go = "found"
        /\ (env.version # 0 \/ (env.go_mod /\ env.verify # 0)))
          => ret.ok = FALSE
    /\ (/\ Called("build_security", "checker")
        /\ env.go = "found" /\ env.git = "found"
        /\ \/ env.version # 0
           \/ env.go_mod /\ env.verify # 0
           \/ env.tidy # 0
           \/ env.tidy = 0 /\ env.diff # 0)
          => ret.ok = FALSE

\* the checks a command selects, when each of them passes
SelectedChecks ==
    IF call.command = "build-env" THEN <<[check |-> "build_environment", binary |-> "none"]>>
    ELSE IF call.command = "build-tags" THEN <<[check |-> "build_tags", binary |-> "none"]>>
    ELSE IF call.command = "patterns" THEN <<[check |-> "patterns", binary |-> "none"]>>
    ELSE IF call.command = "binary"
    THEN <<[check |-> "security", binary |-> "binary_path"],
           [check |-> "permissions", binary |-> "binary_path"]>>
    ELSE ExpectedRun

\* C20: for every subcommand main returns 130 when a KeyboardInterrupt has
\* arrived while one of its checks was running, whichever check it was;
\* otherwise 1 when a check has failed or an exception has reached main, and
\* 0 when all the selected checks have run and passed.
C20_ExitStatus ==
    (call.op = "main" /\ (call.command = "binary" => call.binary_path))
        => /\ ret.status =
                (IF ret.delivered THEN 130
                 ELSE IF ret.raised # "none" \/ ~AllPassed THEN 1
                 ELSE 0)
           /\ ret.status = 0 => RanChecks = SelectedChecks

\* the interrupt has arrived during the scan of a binary, after the
\* forbidden-pattern check had failed, and main returns 130
C20_Witness ==
    /\ call.op = "main" /\ call.command = "all"
    /\ ret.delivered
    /\ Len(ret.ran) >= 4
    /\ ret.ran[Len(ret.ran)].check = "security"
    /\ ~ret.ran[3].ok
    /\ ret.status = 130

\* the checks a call has started for a declared binary, in order
RanFor(binary) == SelectSeq(RanChecks, LAMBDA c : c.binary = binary)

\* C21: in run_all_checks a declared binary that does not exist is skipped
\* (neither its scan nor its permission check runs) and does not make the
\* run fail; for a declared binary that exists the scan and then the
\* permission check run, the permission check also after a failed scan.
C21_ExistingBinariesChecked ==
    call.op = "run_all"
        => /\ \A k \in 1..Len(binaries) :
                /\ bins[binaries[k]].kind = "missing" => RanFor(binaries[k]) = <<>>
                /\ bins[binaries[k]].kind = "file"
                      => RanFor(binaries[k]) = ChecksOf(binaries[k])
           /\ (ret.raised = "none" /\ AllPassed) => ret.status = 0

\* C22: for every readable file content and every minimum length the
\* byte-by-byte extractor of additional-security-checks.py and the
\* read-whole-file extractor of security_checker.py return the same sequence
\* of strings: what either has returned is what the other computes.
C22_ExtractorsAgree ==
    (call.op = "extract" /\ CanRead(fs))
        => ret.strings = (IF call.impl = "script"
                          THEN ExtractedStrings(fs, call.min_length)
                          ELSE ScriptExtractedStrings(fs, call.min_length))

\* the streaming extractor has returned two strings or more, the last of
\* them from the end of the file, and has dropped a shorter run
C22_Witness ==
    /\ Called("extract", "script") /\ CanRead(fs)
    /\ Len(ret.strings) >= 2
    /\ Len(ret.strings) < Len(RefRuns(fs.data))
    /\ RefPrintable(fs.data[Len(fs.data)])
    /\ ret.strings = ExtractedStrings(fs, call.min_length)

\* the verdict of security_checker.py and of additional-security-checks.py
\* on the binary of a scan that ran to its verdict: the one returned, and
\* the one the other file computes
CheckerPasses ==
    IF call.impl = "checker" THEN ret.ok ELSE CheckBinarySecurity(fs, "none").ok
ScriptPasses ==
    IF call.impl = "script" THEN ret.ok ELSE ScriptCheckBinarySecurity(fs, "none").ok

\* C23: for the strings extracted from an existing readable binary, whenever
\* check_binary_security of additional-security-checks.py returns FAIL that
\* of security_checker.py returns FAIL too, and the two verdicts differ only
\* when a string has an unsuppressed soft-fail match and none a hard-fail
\* match.
C23_CheckerAtLeastAsStrict ==
    (call.op = "security" /\ CanRead(fs) /\ call.fault = "none")
        => /\ ~ScriptPasses => ~CheckerPasses
           /\ CheckerPasses # ScriptPasses
                => /\ \E s \in Elems(ScannedStrings) : RefSoft(s) /\ ~RefSuppressed(s)
                   /\ ~\E s \in Elems(ScannedStrings) : RefHard(s)

\* the script passes a binary that the checker fails, a binary that also
\* holds a suppressed soft-fail match
C23_Witness ==
    /\ Called("security", "script") /\ CanRead(fs) /\ call.fault = "none"
    /\ ret.ok = TRUE
    /\ ~CheckerPasses
    /\ \E s \in Elems(ScannedStrings) : RefSoft(s) /\ RefSuppressed(s)

\* C24: no operation changes the SecurityChecker object: after any sequence
\* of calls of the extract, check_* and run_* operations on one checker its
\* exit_code still has its initial value 0, so no check finds a state left
\* by the checks that ran before it.
C24_ObjectUnchanged == exit_code = 0

\* a run of all checks has failed and has left exit_code at 0
C24_Witness ==
    /\ Called("run_all", "checker")
    /\ ret.raised = "none" /\ ret.status = 1
    /\ exit_code = 0

====
